---- MODULE Spec2Model ----
(***************************************************************************)
(* A model of claxon's session layer (src/src/lib.rs): FlacReader::new,    *)
(* FlacReader::samples / blocks and the FlacSamples iterator.              *)
(*                                                                         *)
(* The byte source R is read strictly sequentially and never re-read, so   *)
(* it is modelled by what each read finds at the current position: the     *)
(* signature bytes and the metadata blocks are the inputs of New, and the  *)
(* frame found at the current position is the input of each frame read.    *)
(* The source position is kept in framePos / exhausted.                    *)
(***************************************************************************)
EXTENDS Integers, Sequences, FiniteSets, TLC

\* ---------------------------------------------------------------- bounds
\* The source holds at most MaxFrames frames after the metadata.
MaxFrames == 2
\* A frame holds 1..MaxLen inter-channel samples.
MaxLen == 2
\* A frame or a stream-info block declares 1..MaxChannels channels.
MaxChannels == 2
\* The source holds at most MaxMeta metadata blocks.
MaxMeta == 2

\* ------------------------------------------------------- program constants
\* const HEADER: u32 = 0x66_4c_61_43
HEADER == 1716281667

\* Bit depths a stream-info block or a frame header may declare.
BitDepths == {16, 24}
\* Widths of the sample types S a consumer may choose (i16, i32).
SampleTypes == {16, 32}
\* Declared total sample counts; 0 is "unknown".
SampleCounts == {0, MaxLen + 1}

\* ------------------------------------------------------------ the source
\* The first bytes of the source: 'fLaC', 'FLaC' (first byte corrupted),
\* 'fLaD', 'CaLf' (the bytes in little-endian order), and a source that
\* ends after three bytes.
Signatures ==
    { <<102, 76, 97, 67>>, <<70, 76, 97, 67>>, <<102, 76, 97, 68>>,
      <<67, 97, 76, 102>>, <<102, 76, 97>> }

StreamInfos ==
    [channels : 1..MaxChannels, bits_per_sample : BitDepths, samples : SampleCounts]

NoInfo == [channels |-> 0, bits_per_sample |-> 0, samples |-> 0]

\* A metadata block as the source holds it: its type, its last-block flag,
\* and, for a stream-info block, its parsed body. "bad" is a block whose
\* parse fails.
MetaItems ==
    [type : {"streaminfo"}, is_last : BOOLEAN, info : StreamInfos]
    \cup [type : {"other", "bad"}, is_last : BOOLEAN, info : {NoInfo}]

RECURSIVE SeqsUpTo(_, _)
SeqsUpTo(S, n) ==
    IF n = 0 THEN { <<>> }
    ELSE LET shorter == SeqsUpTo(S, n - 1)
         IN  shorter \cup { Append(s, x) : s \in { t \in shorter : Len(t) = n - 1 }, x \in S }

\* The metadata section of a source: no block follows a last-flagged one.
MetaSeqs ==
    { m \in SeqsUpTo(MetaItems, MaxMeta) :
        \A i \in 1..Len(m) : m[i].is_last => i = Len(m) }

\* What a frame read finds at the current position of the source: a frame
\* with its header fields, bytes that do not decode, or the end of input.
Eof == [kind |-> "eof", channels |-> 0, len |-> 0, bps |-> 0]
Corrupt == [kind |-> "corrupt", channels |-> 0, len |-> 0, bps |-> 0]
Frames == [kind : {"frame"}, channels : 1..MaxChannels, len : 1..MaxLen, bps : BitDepths]

\* channel: u8 and sample: u16. The counters hold 0..u8_MAX and 0..u16_MAX;
\* the two widths are scaled down to the largest block of the model, so that
\* a block of u8_MAX channels and u16_MAX samples, the largest the counters
\* are meant for, is one the source can hold.
u8_MAX == MaxChannels
u16_MAX == MaxLen

\* x += 1 on a counter of 0..max: the sum, wrapped when it does not fit.
add_one(x, max) == (x + 1) % (max + 1)

\* ---------------------------------------------------------------- results
Ok == "Ok"
None == [tag |-> "None", val |-> <<0, 0, 0>>, err |-> ""]
NoCall == [tag |-> "NoCall", val |-> <<0, 0, 0>>, err |-> ""]
SomeOk(v) == [tag |-> "SomeOk", val |-> v, err |-> ""]
SomeErr(e) == [tag |-> "SomeErr", val |-> <<0, 0, 0>>, err |-> e]
\* The results of FrameReader::read_next as blocks() callers see them.
OkBlock(b) == [tag |-> "OkBlock", val |-> <<b.idx, b.channels, b.len>>, err |-> ""]
ErrBlock(e) == [tag |-> "ErrBlock", val |-> <<0, 0, 0>>, err |-> e]

\* ----------------------------------------------------------------- blocks
\* frame::Block: idx names the frame the block was decoded from (0: none),
\* bps is the bit depth its frame header declared.
EmptyBlock == [idx |-> 0, channels |-> 0, len |-> 0, bps |-> 0]

\* Block::sample(ch, sample): the sample of channel ch at index sample,
\* named by the frame it belongs to.
BlockSample(b, ch, s) == <<b.idx, ch, s>>

\* Block::into_buffer: the block's backing storage, by the number of samples
\* it holds; Block::empty() holds none.
into_buffer(b) == b.channels * b.len

\* FrameReader::read_next on frame f, the idx-th frame of the source, decoding
\* into sample type S.
read_next(S, f, idx) ==
    IF f.kind = "eof" THEN [ok |-> FALSE, err |-> "unexpected eof", block |-> EmptyBlock]
    ELSE IF f.kind = "corrupt" THEN [ok |-> FALSE, err |-> "format", block |-> EmptyBlock]
    ELSE IF f.bps > S THEN [ok |-> FALSE, err |-> "too wide", block |-> EmptyBlock]
    ELSE [ok |-> TRUE, err |-> "",
          block |-> [idx |-> idx, channels |-> f.channels, len |-> f.len, bps |-> f.bps]]

\* ------------------------------------------------------------------ state
VARIABLES
    opened,     \* the result of FlacReader::new: "unopened", Ok, or the error
    reader,     \* the FlacReader: streaminfo and metadata_blocks
    sigBytes,   \* the signature bytes FlacReader::new found in the source
    firstBody,  \* the body of the first metadata block new read from the source, as
                \* a stream-info (NoInfo when there is none)
    log,        \* the reads FlacReader::new made of the source, in order: "signature",
                \* then what each metadata block read found
    metaDone,   \* the last-flagged metadata block has been read
    framePos,   \* the number of frames consumed from the source
    exhausted,  \* a read has hit the end of the source
    remaining,  \* declared samples not yet decoded, while the stream is valid; -1 otherwise
    consistent, \* every frame read so far found a well-formed frame that declares the
                \* stream-info's channels and bit depth
    lastDecoded, \* the index of the last frame decoded successfully (0: none)
    it,         \* the live borrower of the reader: none, a FlacSamples, a FrameReader
    ret,        \* what the last next() / read_next() call returned
    reads,      \* the read_next calls the last next() made
    op          \* the last operation

vars ==
    <<opened, reader, sigBytes, firstBody, log, metaDone, framePos, exhausted, remaining,
      consistent, lastDecoded, it, ret, reads, op>>

NoReader == [streaminfo |-> NoInfo, metadata_blocks |-> <<>>]
NoIter ==
    [kind |-> "none", S |-> 0, block |-> EmptyBlock, sample |-> 0, channel |-> 0,
     has_failed |-> FALSE, first |-> FALSE, prev |-> 0, okCount |-> 0, errCount |-> 0]

\* -------------------------------------------------------- FlacReader::new
\* ReadExt::read_be_u32 on the first bytes of the source.
read_be_u32(bytes) ==
    IF Len(bytes) < 4 THEN [ok |-> FALSE, val |-> 0]
    ELSE [ok |-> TRUE,
          val |-> bytes[1] * 16777216 + bytes[2] * 65536 + bytes[3] * 256 + bytes[4]]

\* The header compared with nothing.
read_stream_header_any(sig) ==
    IF ~read_be_u32(sig).ok THEN "unexpected eof" ELSE Ok

read_stream_header(sig) ==
    LET header == read_be_u32(sig)
    IN  IF ~header.ok THEN "unexpected eof"
        ELSE IF header.val # HEADER THEN "invalid stream header"
        ELSE Ok

\* MetadataBlockReader::next for the i-th block of the source: None once the
\* last-flagged block was read (done), else the block or the error.
metadata_next(meta, i, done) ==
    IF done THEN [some |-> FALSE, ok |-> FALSE, err |-> "", block |-> NoInfo, type |-> "", is_last |-> TRUE]
    ELSE IF i > Len(meta)
    THEN [some |-> TRUE, ok |-> FALSE, err |-> "unexpected eof", block |-> NoInfo, type |-> "eof", is_last |-> FALSE]
    ELSE IF meta[i].type = "bad"
    THEN [some |-> TRUE, ok |-> FALSE, err |-> "bad metadata block", block |-> NoInfo, type |-> "bad", is_last |-> FALSE]
    ELSE [some |-> TRUE, ok |-> TRUE, err |-> "", block |-> meta[i].info,
          type |-> meta[i].type, is_last |-> meta[i].is_last]

\* The first block taken as the stream-info whatever its type.
expect_streaminfo_any(block) == Ok

\* match streaminfo_block { StreamInfo(info) => info, _ => fmt_err(..) }
expect_streaminfo(block) ==
    IF block.type = "streaminfo" THEN Ok ELSE "streaminfo block missing"

\* The remaining metadata blocks left unread.
read_remaining_none(meta, i, done, blocks, rlog) ==
    [res |-> Ok, blocks |-> blocks, log |-> rlog, done |-> done]

\* The remaining metadata blocks read up to the first failure, which is
\* swallowed: the blocks read so far are kept.
RECURSIVE read_remaining_lenient(_, _, _, _, _)
read_remaining_lenient(meta, i, done, blocks, rlog) ==
    LET r == metadata_next(meta, i, done)
    IN  IF ~r.some THEN [res |-> Ok, blocks |-> blocks, log |-> rlog, done |-> TRUE]
        ELSE IF ~r.ok
        THEN [res |-> Ok, blocks |-> blocks, log |-> Append(rlog, r.type), done |-> FALSE]
        ELSE read_remaining_lenient(meta, i + 1, r.is_last, Append(blocks, r.type),
                                    Append(rlog, r.type))

\* for block_result in metadata_iter { ... }: from block i on.
RECURSIVE read_remaining(_, _, _, _, _)
read_remaining(meta, i, done, blocks, rlog) ==
    LET r == metadata_next(meta, i, done)
    IN  IF ~r.some THEN [res |-> Ok, blocks |-> blocks, log |-> rlog, done |-> TRUE]
        ELSE IF ~r.ok
        THEN [res |-> r.err, blocks |-> blocks, log |-> Append(rlog, r.type), done |-> FALSE]
        ELSE read_remaining(meta, i + 1, r.is_last, Append(blocks, r.type),
                            Append(rlog, r.type))

\* FlacReader::new on a source that starts with the bytes sig followed by
\* the metadata blocks meta.
FlacReader_new(sig, meta) ==
    LET h == read_stream_header(sig)
        fail(e, l, d) == [res |-> e, reader |-> NoReader, log |-> l, done |-> d]
    IN  IF h # Ok THEN fail(h, <<"signature">>, FALSE)
        ELSE LET first == metadata_next(meta, 1, FALSE)
                 l1 == <<"signature", first.type>>
             IN  IF ~first.ok THEN fail(first.err, l1, FALSE)
                 ELSE IF expect_streaminfo(first) # Ok
                 THEN fail(expect_streaminfo(first), l1, first.is_last)
                 ELSE LET rest == read_remaining(meta, 2, first.is_last, <<>>, l1)
                      IN  IF rest.res # Ok THEN fail(rest.res, rest.log, rest.done)
                          ELSE [res |-> Ok,
                                reader |-> [streaminfo |-> first.block,
                                            metadata_blocks |-> rest.blocks],
                                log |-> rest.log, done |-> rest.done]

New ==
    /\ opened = "unopened"
    /\ \E sig \in Signatures, meta \in MetaSeqs :
         LET r == FlacReader_new(sig, meta)
         IN  /\ opened' = r.res
             /\ reader' = r.reader
             /\ sigBytes' = sig
             /\ firstBody' = IF r.log # <<"signature">> /\ Len(meta) >= 1
                             THEN meta[1].info ELSE NoInfo
             /\ log' = r.log
             /\ metaDone' = r.done
             /\ remaining' = IF r.res = Ok /\ r.reader.streaminfo.samples # 0
                             THEN r.reader.streaminfo.samples ELSE -1
    /\ op' = "new"
    /\ UNCHANGED <<framePos, exhausted, consistent, lastDecoded, it, ret, reads>>

\* FlacReader::streaminfo: a copy of self.streaminfo.
FlacReader_streaminfo == reader.streaminfo

\* ------------------------------------------------- blocks() and samples()
\* FlacReader::samples: a FlacSamples over FrameReader::new(&mut self.input).
FlacReader_samples(S) ==
    [kind |-> "samples", S |-> S, block |-> EmptyBlock, sample |-> 0, channel |-> 0,
     has_failed |-> FALSE, first |-> framePos = 0 /\ ~exhausted, prev |-> lastDecoded,
     okCount |-> 0, errCount |-> 0]

\* FlacReader::blocks: FrameReader::new(&mut self.input).
FlacReader_blocks(S) ==
    [kind |-> "blocks", S |-> S, block |-> EmptyBlock, sample |-> 0, channel |-> 0,
     has_failed |-> FALSE, first |-> framePos = 0 /\ ~exhausted, prev |-> lastDecoded,
     okCount |-> 0, errCount |-> 0]

\* samples() over a source rewound to its first frame.
Samples_rewind ==
    /\ opened = Ok /\ it.kind = "none"
    /\ \E S \in SampleTypes : it' = FlacReader_samples(S)
    /\ framePos' = 0
    /\ ret' = NoCall /\ reads' = 0 /\ op' = "samples"
    /\ UNCHANGED <<opened, reader, sigBytes, firstBody, log, metaDone, exhausted, remaining,
                   consistent, lastDecoded>>

Samples ==
    /\ opened = Ok /\ it.kind = "none"
    /\ \E S \in SampleTypes : it' = FlacReader_samples(S)
    /\ ret' = NoCall /\ reads' = 0 /\ op' = "samples"
    /\ UNCHANGED <<opened, reader, sigBytes, firstBody, log, metaDone, framePos, exhausted,
                   remaining, consistent, lastDecoded>>

Blocks ==
    /\ opened = Ok /\ it.kind = "none"
    /\ \E S \in SampleTypes : it' = FlacReader_blocks(S)
    /\ ret' = NoCall /\ reads' = 0 /\ op' = "blocks"
    /\ UNCHANGED <<opened, reader, sigBytes, firstBody, log, metaDone, framePos, exhausted,
                   remaining, consistent, lastDecoded>>

\* The iterator or frame reader goes out of scope; the reader is free again.
Drop ==
    /\ it.kind # "none"
    /\ it' = NoIter /\ ret' = NoCall /\ reads' = 0 /\ op' = "drop"
    /\ UNCHANGED <<opened, reader, sigBytes, firstBody, log, metaDone, framePos, exhausted,
                   remaining, consistent, lastDecoded>>

\* ------------------------------------------------------ the source, read
\* What the source can hold at the current position.
Available == IF exhausted \/ framePos >= MaxFrames THEN {Eof} ELSE Frames \cup {Corrupt, Eof}

\* The header of frame f declares what the session's stream-info declares.
MatchesStreamInfo(f) ==
    /\ f.channels = reader.streaminfo.channels
    /\ f.bps = reader.streaminfo.bits_per_sample

\* The declared samples still to come after reading f with result r, while
\* the stream is the valid stream its stream-info declares.
RemainingAfter(f, r) ==
    IF remaining < 0 THEN -1
    ELSE IF f.kind = "eof" THEN (IF remaining = 0 THEN 0 ELSE -1)
    ELSE IF r.ok /\ MatchesStreamInfo(f) /\ f.len <= remaining
    THEN remaining - f.len
    ELSE -1

\* The effect of one frame read on the source.
Consume(f, r) ==
    /\ framePos' = IF f.kind = "eof" THEN framePos ELSE framePos + 1
    /\ exhausted' = (exhausted \/ f.kind = "eof")
    /\ remaining' = RemainingAfter(f, r)
    /\ consistent' = (consistent /\ f.kind = "frame" /\ MatchesStreamInfo(f))
    /\ lastDecoded' = IF r.ok THEN r.block.idx ELSE lastDecoded

\* ------------------------------------------------------ FlacSamples::next
\* The cursor moved sample-major instead of channel-major.
advance_sample_major(self) ==
    LET channel1 == self.channel + 1
        sample1 == self.sample + 1
    IN  IF sample1 >= self.block.len
        THEN IF channel1 >= self.block.channels
             THEN [channel |-> 0, sample |-> 0, decode |-> TRUE]
             ELSE [channel |-> channel1, sample |-> 0, decode |-> FALSE]
        ELSE [channel |-> self.channel, sample |-> sample1, decode |-> FALSE]

\* A new block decoded after every inter-channel sample.
advance_eager(self) ==
    LET channel1 == self.channel + 1
    IN  IF channel1 >= self.block.channels
        THEN [channel |-> 0, sample |-> 0, decode |-> TRUE]
        ELSE [channel |-> channel1, sample |-> self.sample, decode |-> FALSE]

\* The cursor compared with > where the code compares with >=.
advance_off_by_one(self) ==
    LET channel1 == self.channel + 1
        sample1 == self.sample + 1
    IN  IF channel1 > self.block.channels
        THEN IF sample1 > self.block.len
             THEN [channel |-> 0, sample |-> 0, decode |-> TRUE]
             ELSE [channel |-> 0, sample |-> sample1, decode |-> FALSE]
        ELSE [channel |-> channel1, sample |-> self.sample, decode |-> FALSE]

\* The channel counter left where it is when the sample counter moves.
advance_no_channel_reset(self) ==
    LET channel1 == add_one(self.channel, u8_MAX)
        sample1 == add_one(self.sample, u16_MAX)
    IN  IF channel1 >= self.block.channels
        THEN IF sample1 >= self.block.len
             THEN [channel |-> channel1, sample |-> 0, decode |-> TRUE]
             ELSE [channel |-> channel1, sample |-> sample1, decode |-> FALSE]
        ELSE [channel |-> channel1, sample |-> self.sample, decode |-> FALSE]

\* The cursor update of next(): the channel first, then the sample, and a
\* new block once the sample index passes the end of the current one.
advance(self) ==
    LET channel1 == add_one(self.channel, u8_MAX)
        sample1 == add_one(self.sample, u16_MAX)
    IN  IF channel1 >= self.block.channels
        THEN IF sample1 >= self.block.len
             THEN [channel |-> 0, sample |-> 0, decode |-> TRUE]
             ELSE [channel |-> 0, sample |-> sample1, decode |-> FALSE]
        ELSE [channel |-> channel1, sample |-> self.sample, decode |-> FALSE]

\* Some(Ok(self.block.sample(self.channel, self.sample)))
yield(self, read) ==
    [self |-> [self EXCEPT !.okCount = @ + 1],
     ret |-> SomeOk(BlockSample(self.block, self.channel, self.sample)),
     read |-> read]

\* The error branch without the flag.
on_read_error_unflagged(self, error) ==
    [self |-> [self EXCEPT !.block = EmptyBlock, !.errCount = @ + 1],
     ret |-> SomeErr(error), read |-> TRUE]

\* A failed read taken as the end of the stream.
on_read_error_none(self, error) ==
    [self |-> [self EXCEPT !.block = EmptyBlock, !.has_failed = TRUE],
     ret |-> None, read |-> TRUE]

\* Err(error) => { self.has_failed = true; return Some(Err(error)); }
\* The block was replaced by Block::empty() before the read.
on_read_error(self, error) ==
    [self |-> [self EXCEPT !.block = EmptyBlock, !.has_failed = TRUE, !.errCount = @ + 1],
     ret |-> SomeErr(error), read |-> TRUE]

\* next() past the has_failed check, when a frame read, if made, finds f as
\* the idx-th frame of the source.
next_unchecked(self, f, idx) ==
    LET a == advance(self)
        moved == [self EXCEPT !.channel = a.channel, !.sample = a.sample]
    IN  IF a.decode
        THEN LET r == read_next(self.S, f, idx)
             IN  IF r.ok THEN yield([moved EXCEPT !.block = r.block], TRUE)
                 ELSE on_read_error(moved, r.err)
        ELSE yield(moved, FALSE)

\* next() without the has_failed check.
FlacSamples_next_unguarded(self, f, idx) == next_unchecked(self, f, idx)

\* next() on the iterator self. read: whether read_next was called.
FlacSamples_next(self, f, idx) ==
    IF self.has_failed THEN [self |-> self, ret |-> None, read |-> FALSE]
    ELSE next_unchecked(self, f, idx)

\* next() with the session's stream-info following the decoded frame.
SamplesNext_adapt ==
    /\ it.kind = "samples"
    /\ \E f \in Available :
         LET n == FlacSamples_next(it, f, framePos + 1)
         IN  /\ it' = n.self
             /\ ret' = n.ret
             /\ reads' = IF n.read THEN 1 ELSE 0
             /\ reader' = IF n.ret.tag = "SomeOk"
                          THEN [reader EXCEPT !.streaminfo.channels = n.self.block.channels]
                          ELSE reader
             /\ IF n.read THEN Consume(f, read_next(it.S, f, framePos + 1))
                ELSE UNCHANGED <<framePos, exhausted, remaining, consistent, lastDecoded>>
    /\ op' = "next"
    /\ UNCHANGED <<opened, sigBytes, firstBody, log, metaDone>>

SamplesNext ==
    /\ it.kind = "samples"
    /\ \E f \in Available :
         LET n == FlacSamples_next(it, f, framePos + 1)
         IN  /\ it' = n.self
             /\ ret' = n.ret
             /\ reads' = IF n.read THEN 1 ELSE 0
             /\ IF n.read THEN Consume(f, read_next(it.S, f, framePos + 1))
                ELSE UNCHANGED <<framePos, exhausted, remaining, consistent, lastDecoded>>
    /\ op' = "next"
    /\ UNCHANGED <<opened, reader, sigBytes, firstBody, log, metaDone>>

\* FrameReader::read_next called on the frame reader blocks() returned.
BlocksReadNext ==
    /\ it.kind = "blocks"
    /\ \E f \in Available :
         LET r == read_next(it.S, f, framePos + 1)
         IN  /\ it' = [it EXCEPT !.block = r.block]
             /\ ret' = IF r.ok THEN OkBlock(r.block) ELSE ErrBlock(r.err)
             /\ Consume(f, r)
    /\ reads' = 1
    /\ op' = "read_next"
    /\ UNCHANGED <<opened, reader, sigBytes, firstBody, log, metaDone>>

\* ----------------------------------------------------------- specification
Init ==
    /\ opened = "unopened"
    /\ reader = NoReader
    /\ sigBytes = <<>>
    /\ firstBody = NoInfo
    /\ log = <<>>
    /\ metaDone = FALSE
    /\ framePos = 0
    /\ exhausted = FALSE
    /\ remaining = -1
    /\ consistent = TRUE
    /\ lastDecoded = 0
    /\ it = NoIter
    /\ ret = NoCall
    /\ reads = 0
    /\ op = "init"

Next == New \/ Samples \/ Blocks \/ Drop \/ SamplesNext \/ BlocksReadNext

Spec == Init /\ [][Next]_vars

\* The consumer keeps calling next() on the iterator it holds.
SpecLive == Init /\ [][Next]_vars /\ WF_vars(SamplesNext)

\* ================================================================ claims
IsSamples == it.kind = "samples"
\* The step is a FlacSamples::next call on the live iterator.
NextCall == IsSamples /\ op' = "next"
\* No call has been made on the live iterator yet.
Uncalled == ret.tag = "NoCall"

\* C1: once a next() call on an iterator has returned Some(Err(_)), every
\* later call on that iterator returns None, yields no further sample or
\* error, and does not call read_next (no frame is consumed).
C1_Poisoned ==
    [][ (NextCall /\ it.errCount > 0) =>
          /\ ret' = None
          /\ reads' = 0
          /\ framePos' = framePos /\ exhausted' = exhausted
          /\ it'.okCount = it.okCount /\ it'.errCount = it.errCount ]_vars

C1_Witness ==
    IsSamples /\ op = "next" /\ it.okCount > 0 /\ it.errCount = 1 /\ ret = None

\* C2: the Ok values of an iterator come in channel-interleaved order: the
\* first is sample(0, 0) of the first block the frame reader returns; after
\* B.sample(c, i) comes B.sample(c + 1, i), or B.sample(0, i + 1) after the
\* last channel, or sample(0, 0) of the next block the frame reader returns
\* after the last channel of the last sample of B. The frame reader is called
\* exactly in the first and the last case.
C2_InterleavedOrder ==
    [][ (NextCall /\ ret'.tag = "SomeOk") =>
          LET v == ret'.val
              k == ret.val[1]
              c == ret.val[2]
              i == ret.val[3]
              fromNewBlock ==
                  /\ reads' = 1
                  /\ it'.block.idx = framePos + 1
                  /\ v = <<framePos + 1, 0, 0>>
          IN  IF Uncalled THEN fromNewBlock
              ELSE /\ ret.tag = "SomeOk"
                   /\ k = it.block.idx
                   /\ IF c + 1 < it.block.channels
                      THEN v = <<k, c + 1, i>> /\ reads' = 0 /\ it'.block = it.block
                      ELSE IF i + 1 < it.block.len
                      THEN v = <<k, 0, i + 1>> /\ reads' = 0 /\ it'.block = it.block
                      ELSE fromNewBlock ]_vars

C2_Witness ==
    /\ IsSamples /\ it.block.channels = 2 /\ it.okCount > 2
    /\ ret = SomeOk(<<2, 0, 0>>)

\* The live iterator was obtained right after opening a stream that declares
\* its total sample count, and the stream has been the valid stream its
\* stream-info declares in everything read of it so far.
ValidKnownStream ==
    IsSamples /\ it.first /\ reader.streaminfo.samples # 0 /\ remaining >= 0

DeclaredValues == reader.streaminfo.samples * reader.streaminfo.channels

\* C3: on a valid stream that declares N samples and C channels, the iterator
\* obtained right after opening yields exactly N*C samples and then ends: no
\* error item, no more than N*C values, and no end before N*C values.
C3_ExactCount ==
    ValidKnownStream =>
        /\ it.errCount = 0
        /\ it.okCount <= DeclaredValues
        /\ (ret = None => it.okCount = DeclaredValues)

\* The sample type of the live iterator is narrower than the stream's bit
\* depth, and every frame read found a frame of that bit depth.
TooNarrow ==
    IsSamples /\ it.S < reader.streaminfo.bits_per_sample /\ consistent

C5_BadSignature ==
    (op # "init" /\ Len(sigBytes) = 4 /\ sigBytes # <<102, 76, 97, 67>>) =>
        /\ opened = "invalid stream header"
        /\ log = <<"signature">>
        /\ framePos = 0 /\ ~exhausted
        /\ reader = NoReader /\ it = NoIter

C5_Witness ==
    opened = "invalid stream header" /\ sigBytes = <<70, 76, 97, 67>>

\* C6: with a valid signature and a first metadata block that parses but is
\* not the stream-info, opening fails with "streaminfo block missing" after
\* that one block: no further metadata block and no frame is read, and there
\* is no FlacReader.
C6_MissingStreamInfo ==
    (Len(log) >= 2 /\ log[2] = "other") =>
        /\ opened = "streaminfo block missing"
        /\ log = <<"signature", "other">>
        /\ framePos = 0 /\ ~exhausted
        /\ reader = NoReader /\ it = NoIter

C6_Witness ==
    opened = "streaminfo block missing" /\ ~metaDone /\ sigBytes = <<102, 76, 97, 67>>

\* C7: a successful new has read the signature, then the stream-info, then
\* every remaining metadata block up to the last-flagged one, and no frame;
\* the source is read for frames only inside next() / read_next() calls, and
\* for metadata only inside new; samples() and blocks() consume nothing and
\* hand out an empty block, and the first next() call is the one that
\* decodes the first frame.
C7_ReadOrder ==
    /\ [](opened = Ok =>
            /\ Len(log) = 2 + Len(reader.metadata_blocks)
            /\ log[1] = "signature" /\ log[2] = "streaminfo"
            /\ \A j \in 1..Len(reader.metadata_blocks) : log[2 + j] = reader.metadata_blocks[j]
            /\ metaDone)
    /\ [](op = "new" => framePos = 0 /\ ~exhausted /\ lastDecoded = 0)
    /\ []((it.kind # "none" /\ Uncalled) => it.block = EmptyBlock)
    /\ [][ /\ (framePos' # framePos \/ exhausted' # exhausted \/ lastDecoded' # lastDecoded)
              => (op' \in {"next", "read_next"} /\ reads' = 1)
           /\ (log' # log \/ metaDone' # metaDone) => op' = "new"
           /\ (NextCall /\ Uncalled) => reads' = 1 ]_vars

C7_Witness ==
    /\ opened = Ok /\ Len(log) = 3 /\ IsSamples /\ op = "next"
    /\ framePos = 1 /\ it.okCount = 1 /\ it.block.idx = 1

\* C8: an iterator never yields a sample of a frame that was decoded before
\* samples() returned it, and when the last frame consumed before it was
\* decoded successfully, its first value is sample 0 / channel 0 of the frame
\* after that one.
C8_Continuation ==
    /\ []((IsSamples /\ ret.tag = "SomeOk") => ret.val[1] > it.prev)
    /\ [][ (NextCall /\ Uncalled /\ ret'.tag = "SomeOk" /\ lastDecoded = framePos) =>
             ret'.val = <<it.prev + 1, 0, 0>> ]_vars

C8_Witness ==
    IsSamples /\ it.prev = 1 /\ it.okCount = 1 /\ ret = SomeOk(<<2, 0, 0>>)

\* C9: a frame whose header declares another channel count or bit depth than
\* the session's stream-info is never delivered, neither as a block nor as
\* samples.
C9_FrameMatchesStreamInfo ==
    ret.tag \in {"SomeOk", "OkBlock"} =>
        /\ it.block.channels = reader.streaminfo.channels
        /\ it.block.bps = reader.streaminfo.bits_per_sample

\* C10: a stream with a second stream-info block among its metadata is not
\* opened.
C10_DuplicateStreamInfo ==
    (\E j \in 3..Len(log) : log[j] = "streaminfo") => (opened # Ok /\ reader = NoReader)

\* The cursor of the live iterator has exhausted its block: no call was made
\* yet (no block decoded), or the last call returned the last channel of the
\* last sample of the current block.
CursorExhausted ==
    \/ Uncalled
    \/ /\ ret.tag = "SomeOk"
       /\ ret.val = <<it.block.idx, it.block.channels - 1, it.block.len - 1>>

\* C12: a next() call invokes read_next if and only if the iterator is not
\* poisoned and the cursor has exhausted the current block; a call invokes
\* read_next at most once and consumes at most one frame.
C12_FrameRequests ==
    [][ NextCall =>
          /\ (reads' = 1) <=> (it.errCount = 0 /\ CursorExhausted)
          /\ reads' \in {0, 1}
          /\ framePos' \in {framePos, framePos + reads'} ]_vars

C12_Witness ==
    /\ IsSamples /\ op = "next" /\ reads = 0 /\ ret.tag = "SomeOk"
    /\ it.block.len = 2 /\ it.sample = 1 /\ it.okCount > 1

\* C13: whenever next() lends the storage of its current block to the frame
\* reader, the iterator holds storage again when next() returns, on the
\* success path and on the error path alike.
C13_BufferReclaimed ==
    [][ (NextCall /\ reads' = 1 /\ into_buffer(it.block) > 0) =>
          into_buffer(it'.block) > 0 ]_vars

\* C14: streaminfo() returns the stream-info new parsed from the first
\* metadata block, and no later operation (samples(), blocks(), next(),
\* read_next(), drop), failing or not, changes it or the stored metadata
\* blocks.
C14_StreamInfoFixed ==
    /\ [](opened = Ok => FlacReader_streaminfo = firstBody)
    /\ [][ opened = Ok => (opened' = Ok /\ reader' = reader) ]_vars

C14_Witness ==
    /\ opened = Ok /\ Len(reader.metadata_blocks) = 1 /\ IsSamples /\ ret = None
    /\ it.okCount > 0 /\ ~consistent /\ FlacReader_streaminfo = firstBody

\* C15: on a finite source, an iterator whose next() keeps being called
\* comes to return None; it yields at most one Some(Err(_)), and it returns
\* None only after that one error.
C15_Terminates ==
    /\ [](IsSamples => (it.errCount <= 1 /\ (ret = None => it.errCount = 1)))
    /\ [](IsSamples => it.okCount <= MaxFrames * MaxLen * MaxChannels)
    /\ (IsSamples ~> (ret = None \/ ~IsSamples))

C15_Witness ==
    /\ IsSamples /\ ret = None /\ exhausted /\ framePos = MaxFrames
    /\ it.okCount > MaxFrames /\ it.errCount = 1

\* The error a failed read of a metadata block returns.
ErrOf(entry) ==
    IF entry = "bad" THEN "bad metadata block" ELSE "unexpected eof"

\* C16: new fails fast. A failed read (signature, first block or a later
\* block) is the last read new made and its error is what new returned, with
\* no reader, no iterator and no frame read; new returned Ok only when the
\* signature matched, the first block was the stream-info and every block up
\* to the last-flagged one was read and kept.
C16_FailFast ==
    /\ \A i \in 1..Len(log) :
         log[i] \in {"bad", "eof"} => (i = Len(log) /\ opened = ErrOf(log[i]))
    /\ (op # "init" /\ Len(sigBytes) < 4) =>
         (opened = "unexpected eof" /\ log = <<"signature">>)
    /\ (Len(sigBytes) = 4 /\ sigBytes # <<102, 76, 97, 67>>) =>
         (opened = "invalid stream header" /\ log = <<"signature">>)
    /\ (Len(log) >= 2 /\ log[2] = "other") =>
         (opened = "streaminfo block missing" /\ Len(log) = 2)
    /\ opened \notin {"unopened", Ok} =>
         (reader = NoReader /\ it = NoIter /\ framePos = 0 /\ reads = 0)
    /\ opened = Ok =>
         /\ sigBytes = <<102, 76, 97, 67>>
         /\ Len(log) >= 2 /\ log[2] = "streaminfo"
         /\ \A i \in 3..Len(log) : log[i] \in {"streaminfo", "other"}
         /\ metaDone
         /\ Len(reader.metadata_blocks) = Len(log) - 2

C16_Witness ==
    /\ opened = "bad metadata block" /\ log = <<"signature", "streaminfo", "bad">>
    /\ reader = NoReader /\ framePos = 0

\* C17: after every next() that returned Some(Ok(_)) the cursor is inside the
\* current block, channel < block.channels() and sample < block.len(), and
\* the value returned is the block's sample at that cursor.
C17_CursorInBounds ==
    (IsSamples /\ ret.tag = "SomeOk") =>
        /\ it.channel \in 0..(it.block.channels - 1)
        /\ it.sample \in 0..(it.block.len - 1)
        /\ ret.val = BlockSample(it.block, it.channel, it.sample)

C17_Witness ==
    /\ IsSamples /\ ret.tag = "SomeOk" /\ framePos = MaxFrames
    /\ it.block.channels = MaxChannels /\ it.block.len = MaxLen
    /\ it.channel = it.block.channels - 1 /\ it.sample = it.block.len - 1

\* C18: no increment of the cursor overflows its counter. Whenever next()
\* goes past the has_failed check, channel is below the largest value of its
\* type before channel += 1, and sample is below the largest value of its
\* type before sample += 1, for blocks of up to u8_MAX channels and u16_MAX
\* samples.
C18_NoOverflow ==
    [][ (NextCall /\ ~it.has_failed) =>
          /\ it.channel + 1 <= u8_MAX
          /\ (it.channel + 1 >= it.block.channels => it.sample + 1 <= u16_MAX)
          /\ it'.channel <= u8_MAX /\ it'.sample <= u16_MAX ]_vars

C18_Witness ==
    /\ IsSamples /\ ret.tag = "SomeOk" /\ ~it.has_failed
    /\ it.block.channels = u8_MAX /\ it.block.len = u16_MAX
    /\ it.channel = u8_MAX - 1 /\ it.sample = u16_MAX - 1 /\ framePos < MaxFrames

====
